---------------------------- MODULE Spec2Model ----------------------------
(***************************************************************************)
(* Gauss quadrature from three-term recurrence coefficients                *)
(* (orthopy/schemes.py), the Clenshaw reducer exercised by                 *)
(* test/test_c1_tools.py and the constructors of the multivariate normal   *)
(* evaluators (orthopy/enr2/main.py).                                      *)
(*                                                                         *)
(* Arrays keep the source's 0-based indexing: an array of length n is a    *)
(* function with domain 0..n-1.  Numbers are exact: an integer, or a pair  *)
(* <<m, s>> standing for the rational m / s (s > 0).  A value held at a    *)
(* fixed number of decimal digits p is the pair <<m, 10^p>>.               *)
(***************************************************************************)
EXTENDS Integers, Sequences, FiniteSets, TLC

\* Largest number of recurrence coefficients handed to custom().
MaxN == 2
\* Largest decimal_places requested from the arbitrary-precision backend.
MaxDps == 2
\* Eigenvector components are searched in -MaxComp..MaxComp.
MaxComp == 2
\* Decimal digits kept by the model's IEEE doubles.
DoubleDigits == 3
\* Largest number of non-constant terms of a Clenshaw expansion.
MaxDeg == 2
\* Largest number of coordinate axes of the point set given to enr2.
MaxDim == 3

\* Values the entries of alpha and beta are drawn from.
AlphaVals == {0, 3}
BetaVals == {0, 4}

---------------------------------------------------------------------------
(* Arrays and exact numbers *)

len(a) == Cardinality(DOMAIN a)

Arrays(V, lo, hi) == UNION {[0..(n-1) -> V] : n \in lo..hi}

\* The array holding the elements of the sequence s.
Array(s) == [i \in 0..(Len(s)-1) |-> s[i+1]]

Abs(x) == IF x < 0 THEN -x ELSE x

RECURSIVE Gcd(_, _)
Gcd(a, b) == IF b = 0 THEN a ELSE Gcd(b, a % b)

RECURSIVE Pow10(_)
Pow10(p) == IF p = 0 THEN 1 ELSE 10 * Pow10(p - 1)

RECURSIVE SumTo(_, _)
\* f[0] + ... + f[k]
SumTo(f, k) == IF k < 0 THEN 0 ELSE f[k] + SumTo(f, k - 1)

\* The rational num / den (den > 0) in lowest terms.
Rat(num, den) ==
    LET g == Gcd(Abs(num), den)
    IN  <<num \div g, den \div g>>

\* a <= b and a < b for numbers m / s.
Leq(a, b) == a[1] * b[2] <= b[1] * a[2]
Less(a, b) == a[1] * b[2] < b[1] * a[2]

\* num / den rounded to the nearest number with p decimal digits.
RoundTo(num, den, p) ==
    <<(2 * num * Pow10(p) + den) \div (2 * den), Pow10(p)>>

\* The exact square root; the coefficients are drawn from perfect squares.
sqrt(b) == CHOOSE r \in 0..b : r * r = b

---------------------------------------------------------------------------
(* The symmetric eigenproblem, as the three eigen-solvers answer it *)

\* The largest element of the set S of integers.
Max(S) == CHOOSE r \in S : \A q \in S : q <= r

\* Gershgorin's bound on the eigenvalues of M.
Radius(M) ==
    Max({SumTo([j \in DOMAIN M |-> Abs(M[i][j])], len(M) - 1) :
            i \in DOMAIN M})

RECURSIVE CharPoly(_, _, _, _)
\* The j-th Taylor coefficient at x of det(t I - M[0..k-1, 0..k-1]), by the
\* three-term recurrence of a tridiagonal determinant.
CharPoly(M, j, k, x) ==
    IF j < 0 \/ k < 0 THEN 0
    ELSE IF k = 0 THEN (IF j = 0 THEN 1 ELSE 0)
    ELSE CharPoly(M, j - 1, k - 1, x)
         + (x - M[k-1][k-1]) * CharPoly(M, j, k - 1, x)
         - (IF k >= 2
            THEN M[k-2][k-1] * M[k-1][k-2] * CharPoly(M, j, k - 2, x)
            ELSE 0)

\* The roots of the characteristic polynomial of M among -r..r.
Roots(M, r) == {x \in (-r)..r : CharPoly(M, 0, len(M), x) = 0}

\* The integer eigenvalues of M.
Eigenvalues(M) == Roots(M, Radius(M))

\* The algebraic multiplicity of the eigenvalue x of M.
Multiplicity(M, x) ==
    CHOOSE m \in 0..len(M) :
        /\ \A j \in 0..(m-1) : CharPoly(M, j, len(M), x) = 0
        /\ CharPoly(M, m, len(M), x) # 0

Dot(u, v) == SumTo([j \in DOMAIN u |-> u[j] * v[j]], len(u) - 1)

\* The eigenvectors of M for x with components in -MaxComp..MaxComp.
NullVecs(M, x) ==
    {v \in [0..(len(M)-1) -> (-MaxComp)..MaxComp] :
        /\ \E i \in DOMAIN v : v[i] # 0
        /\ \A i \in DOMAIN v : Dot(M[i], v) = x * v[i]}

\* The number of non-zero components of v.
Support(v) == Cardinality({i \in DOMAIN v : v[i] # 0})

RECURSIVE OrthoBasis(_, _)
\* m pairwise orthogonal vectors of S, sparsest first, as a sequence.
OrthoBasis(S, m) ==
    IF m = 0 \/ S = {} THEN <<>>
    ELSE LET v == CHOOSE u \in S : \A t \in S : Support(u) <= Support(t)
         IN  <<v>> \o OrthoBasis({u \in S : Dot(u, v) = 0}, m - 1)

\* The eigenvalues of M in ascending order, as a sequence.
RECURSIVE Ascending(_)
Ascending(S) ==
    IF S = {} THEN <<>>
    ELSE LET lo == CHOOSE x \in S : \A y \in S : x <= y
         IN  <<lo>> \o Ascending(S \ {lo})

\* The item of the eigenvalue val of M, of multiplicity mult: vecs is an
\* orthogonal basis of its eigenspace.
Item(M, val, mult) ==
    [val |-> val, mult |-> mult, vecs |-> OrthoBasis(NullVecs(M, val), mult)]

\* One item per eigenvalue of the sequence vals.
Items(M, vals) ==
    [k \in 1..Len(vals) |-> Item(M, vals[k], Multiplicity(M, vals[k]))]

\* The eigen-decomposition of M: one item [val, mult, vecs] per distinct
\* eigenvalue, ascending.
Decompose(M) == Items(M, Ascending(Eigenvalues(M)))

\* The items account for the whole spectrum of an n x n matrix.
Complete(items, n) ==
    /\ SumTo([k \in 0..(Len(items)-1) |-> items[k+1].mult],
             Len(items) - 1) = n
    /\ \A k \in 1..Len(items) : Len(items[k].vecs) = items[k].mult

\* M has its whole spectrum, eigenvectors included, on the integer lattice.
Solvable(M) == Complete(Decompose(M), len(M))

\* The items of Decompose(M), one per eigenvector: <<[val, vec], ...>>.
RECURSIVE Flatten(_)
Flatten(items) ==
    IF items = <<>> THEN <<>>
    ELSE [k \in 1..Len(Head(items).vecs) |->
             [val |-> Head(items).val, vec |-> Head(items).vecs[k]]]
         \o Flatten(Tail(items))

\* The permutations of 1..n, as sequences.
Perms(n) == {p \in [1..n -> 1..n] : \A i, j \in 1..n : i # j => p[i] # p[j]}

Identity(n) == [k \in 1..n |-> k]

\* The matrix tridiag_eigen reads from the diagonal d and the off-diagonal e
\* (e[i] couples rows i and i+1, e[n-1] is not read).
TridiagDense(d, e) ==
    LET n == len(d)
    IN  [i \in 0..(n-1) |-> [j \in 0..(n-1) |->
            IF i = j THEN d[i]
            ELSE IF j = i + 1 THEN e[i]
            ELSE IF i = j + 1 THEN e[j]
            ELSE 0]]

\* The entries of the Jacobi matrix the coefficients stand for, an
\* off-diagonal that beta does not reach read as 0.
Coupled(alpha, beta) ==
    TridiagDense(alpha, [i \in DOMAIN alpha |->
        IF i < len(alpha) - 1 /\ (i + 1) \in DOMAIN beta
        THEN sqrt(beta[i+1]) ELSE 0])

\* The coefficient arrays callers pass: those whose matrix is Solvable.
Inputs ==
    LET All == Arrays(AlphaVals, 1, MaxN) \X Arrays(BetaVals, 1, MaxN)
    IN  {q : q \in {p \in All : Solvable(Coupled(p[1], p[2]))}}

\* The decompositions of the matrices of Inputs, each computed once.
Spectrum ==
    [M \in {Coupled(p[1], p[2]) : p \in Inputs} |-> Decompose(M)] @@ <<>>

\* sympy's Matrix.eigenvects(): the items (val, multiplicity, basis), listed
\* in an order of the solver's choosing.
Listed(items, perm) ==
    IF Len(items) = Len(perm)
    THEN [k \in 1..Len(items) |-> items[perm[k]]]
    ELSE items

eigenvects(M, perm) == Listed(Spectrum[M], perm)

\* mpmath's tridiag_eigen(mp, d, e, z): on return d holds the eigenvalues in
\* ascending order and z the matching normalized eigenvectors' first
\* components (z started as the first unit row).
tridiag_eigen(M) == Flatten(Spectrum[M])

\* scipy's eig_banded(a_band, lower=False): eigenvalues ascending, the
\* normalized eigenvectors the columns of V.
eig_banded(M) == Flatten(Spectrum[M])

\* The matrix eig_banded reads from upper band storage: row 1 the diagonal,
\* row 0 the super-diagonal shifted right (a_band[0][j] = a[j-1][j], and
\* a_band[0][0] is not read).
BandDense(band) ==
    LET n == len(band[1])
    IN  [i \in 0..(n-1) |-> [j \in 0..(n-1) |->
            IF i = j THEN band[1][j]
            ELSE IF j = i + 1 THEN band[0][j]
            ELSE IF i = j + 1 THEN band[0][i]
            ELSE 0]]

---------------------------------------------------------------------------
(* schemes.py *)

Empty == <<>>

\* v[order[0]], v[order[1]], ...
take(v, order) == [i \in DOMAIN order |-> v[order[i]]]

\* What a call of custom() leaves behind: how it ended, the rule (x, w), the
\* backend entered, whether an eigen-solver ran, the matrix A it was handed,
\* raw, the eigenvalues in the order the solver listed them, the value of
\* mp.dps at the end and whether the call assigned it.
Raise(exc, backend, dps, touched) ==
    [outcome |-> exc, x |-> Empty, w |-> Empty, backend |-> backend,
     solved |-> FALSE, A |-> Empty, raw |-> Empty,
     dps |-> dps, touched |-> touched]

Return(x, w, backend, A, raw, dps, touched) ==
    [outcome |-> "returned", x |-> x, w |-> w, backend |-> backend,
     solved |-> TRUE, A |-> A, raw |-> raw,
     dps |-> dps, touched |-> touched]

\* Variant: the off-diagonal read one place early: b[i], not b[i+1].
sympy_tridiag_shifted(a, b) ==
    LET n == len(a)
    IN  [i \in 0..(n-1) |-> [j \in 0..(n-1) |->
            IF i = j THEN a[i]
            ELSE IF j = i + 1 THEN b[i]
            ELSE IF i = j + 1 THEN b[j]
            ELSE 0]]

sympy_tridiag(a, b) ==
    LET n == len(a)
    IN  [i \in 0..(n-1) |-> [j \in 0..(n-1) |->
            IF i = j THEN a[i]
            ELSE IF j = i + 1 THEN b[i+1]
            ELSE IF i = j + 1 THEN b[j+1]
            ELSE 0]]

\* Variant: the two assertions left out.
simple_unchecked(item) == TRUE

\* assert multiplicity == 1; assert len(vec) == 1
simple(item) == item.mult = 1 /\ Len(item.vecs) = 1

\* Variant: the solver's order kept.
sorted_skipped(x) == [i \in DOMAIN x |-> i]

\* order = sorted(range(len(x)), key=lambda i: x[i]): the indices of x by
\* ascending value, equal values in index order.
sorted(x) ==
    LET n == len(x)
    IN  CHOOSE order \in {[k \in 0..(n-1) |-> p[k+1] - 1] : p \in Perms(n)} :
            \A i, j \in 0..(n-1) :
                i < j => \/ Less(x[order[i]], x[order[j]])
                         \/ /\ x[order[i]] = x[order[j]]
                            /\ order[i] < order[j]

\* x = [x[i] for i in order]
sort_nodes(x, order) == take(x, order)

\* Variant: the weights left in the solver's order.
sort_weights_skipped(w, order) == w

\* w = [w[i] for i in order]
sort_weights(w, order) == take(w, order)

\* Lines 59-63: sort by x.
sympy_sort(x, w, order, A, dps) ==
    Return(sort_nodes(x, order), sort_weights(w, order), "sympy", A, x, dps,
           FALSE)

\* w.append(sympy.simplify(beta[0] * vec[0]**2 / norm2))
sympy_weight(vec, beta0) == Rat(beta0 * vec[0] * vec[0], Dot(vec, vec))

\* Lines 49-58: the loop over the items of A.eigenvects(); x holds the
\* values in the order of the items.
sympy_items(A, items, x, beta, dps) ==
    IF \E k \in 1..Len(items) : ~simple(items[k])
    THEN [Raise("AssertionError", "sympy", dps, FALSE)
            EXCEPT !.solved = TRUE, !.A = A, !.raw = x]
    ELSE sympy_sort(x,
                    [i \in DOMAIN x |->
                        sympy_weight(items[i+1].vecs[1], beta[0])],
                    sorted(x), A, dps)

\* The values of the items, as an array.
item_values(items) == [i \in 0..(Len(items)-1) |-> <<items[i+1].val, 1>>]

\* Line 51 on.
sympy_eigen(A, items, beta, dps) ==
    sympy_items(A, items, item_values(items), beta, dps)

\* Lines 46-51.
sympy_solve(A, beta, dps, perm) ==
    sympy_eigen(A, eigenvects(A, perm), beta, dps)

gauss_from_coefficients_sympy(alpha, beta, kind, dps, perm) ==
    IF kind # "Rational" THEN Raise("AssertionError", "sympy", dps, FALSE)
    ELSE IF len(alpha) # len(beta)
    THEN Raise("AssertionError", "sympy", dps, FALSE)
    ELSE sympy_solve(
            sympy_tridiag(alpha, [k \in DOMAIN beta |-> sqrt(beta[k])]),
            beta, dps, perm)

\* Variant: the assignment left out.
mp_dps_keep(dps, decimal_places) == dps

\* mp.dps = decimal_places: the value mp.dps holds afterwards.
mp_dps_assign(dps, decimal_places) == decimal_places

\* Variant: each call computes at the precision it asked for.
ctx_prec_scoped(dps, decimal_places) == decimal_places

\* The precision mpmath computes at: that of the context mp, which holds
\* dps, whatever decimal_places the running call was given.
ctx_prec(dps, decimal_places) == dps

\* Lines 70-77: the diagonal d and the off-diagonal b for tridiag_eigen;
\* beta[i+1] is read for i < n-1.
mpmath_vectors(alpha, beta) ==
    LET n == len(alpha)
    IN  IF \E i \in 0..(n-2) : (i + 1) \notin DOMAIN beta
        THEN [ok |-> FALSE, d |-> Empty, b |-> Empty]
        ELSE [ok |-> TRUE, d |-> alpha,
              b |-> [i \in 0..(n-1) |->
                        IF i < n - 1 THEN sqrt(beta[i+1]) ELSE 0]]

\* The eigenpairs eig held at precision prec: d, and z through its
\* squares z2.
mpmath_held(eig, prec) ==
    [i \in 0..(Len(eig)-1) |->
        [d  |-> RoundTo(eig[i+1].val, 1, prec),
         z2 |-> RoundTo(eig[i+1].vec[0] * eig[i+1].vec[0],
                        Dot(eig[i+1].vec, eig[i+1].vec), prec)]]

\* Line 78 at precision prec.
mpmath_eigen(d, b, prec) == mpmath_held(tridiag_eigen(TridiagDense(d, b)), prec)

\* Lines 81-82 at precision prec.
mpmath_convert(dz, beta, prec) ==
    [x |-> [i \in DOMAIN dz |-> dz[i].d],
     w |-> [i \in DOMAIN dz |->
              <<beta[0] * RoundTo(dz[i].z2[1], dz[i].z2[2], prec)[1],
                Pow10(prec)>>]]

\* Line 83.
mpmath_return(r, A, now) == Return(r.x, r.w, "mpmath", A, r.x, now, TRUE)

\* Lines 69-83 with mp.dps holding now.
mpmath_solve(v, beta, prec, now) ==
    IF ~v.ok THEN Raise("IndexError", "mpmath", now, TRUE)
    ELSE mpmath_return(
            mpmath_convert(mpmath_eigen(v.d, v.b, prec), beta, prec),
            TridiagDense(v.d, v.b), now)

\* Lines 68-83 with mp.dps holding now.
mpmath_body(alpha, beta, decimal_places, now) ==
    mpmath_solve(mpmath_vectors(alpha, beta), beta,
                 ctx_prec(now, decimal_places), now)

gauss_from_coefficients_mpmath(alpha, beta, decimal_places, dps) ==
    mpmath_body(alpha, beta, decimal_places,
                mp_dps_assign(dps, decimal_places))

\* x, and w = beta[0]*scipy.real(scipy.power(V[0, :], 2)), as doubles.
numpy_rule(A, eig, beta, dps) ==
    Return([i \in 0..(Len(eig)-1) |-> RoundTo(eig[i+1].val, 1, DoubleDigits)],
           [i \in 0..(Len(eig)-1) |->
               <<beta[0] * RoundTo(eig[i+1].vec[0] * eig[i+1].vec[0],
                                   Dot(eig[i+1].vec, eig[i+1].vec),
                                   DoubleDigits)[1],
                 Pow10(DoubleDigits)>>],
           "numpy", A,
           [i \in 0..(Len(eig)-1) |-> RoundTo(eig[i+1].val, 1, DoubleDigits)],
           dps, FALSE)

\* Lines 91-93 on the matrix A that the band storage holds.
numpy_solve(A, beta, dps) == numpy_rule(A, eig_banded(A), beta, dps)

gauss_from_coefficients_numpy(alpha, beta, kind, dps) ==
    IF kind # "ndarray" THEN Raise("AssertionError", "numpy", dps, FALSE)
    ELSE IF len(alpha) # len(beta)
    THEN Raise("ValueError", "numpy", dps, FALSE)
    ELSE numpy_solve(
            BandDense([r \in 0..1 |->
                IF r = 0 THEN [k \in DOMAIN beta |-> sqrt(beta[k])]
                ELSE alpha]),
            beta, dps)

\* Variant: the assertion on the mode left out: the else branch runs.
custom_unchecked(alpha, beta, kind, mode, decimal_places, dps, perm) ==
    IF mode = "sympy"
    THEN gauss_from_coefficients_sympy(alpha, beta, kind, dps, perm)
    ELSE IF mode = "mpmath"
    THEN gauss_from_coefficients_mpmath(alpha, beta, decimal_places, dps)
    ELSE gauss_from_coefficients_numpy(alpha, beta, kind, dps)

custom(alpha, beta, kind, mode, decimal_places, dps, perm) ==
    IF mode = "sympy"
    THEN gauss_from_coefficients_sympy(alpha, beta, kind, dps, perm)
    ELSE IF mode = "mpmath"
    THEN gauss_from_coefficients_mpmath(alpha, beta, decimal_places, dps)
    ELSE IF mode # "numpy"
    THEN Raise("AssertionError", "none", dps, FALSE)
    ELSE gauss_from_coefficients_numpy(alpha, beta, kind, dps)

---------------------------------------------------------------------------
(* The callers of custom(), one call at a time *)

VARIABLES
    mpdps,  \* mp.dps, the process-wide precision of mpmath's context mp
    coef,   \* the coefficient arrays the caller holds
    last,   \* the last call of custom() on them
    pc,     \* per thread: the line of _gauss_from_coefficients_mpmath it is at
    req,    \* per thread: the arguments of its call
    loc,    \* per thread: the locals of its call
    cl,     \* a call of clenshaw(): its arguments and its value
    ev      \* a construction of an enr2 evaluator: its arguments and outcome

vars == <<mpdps, coef, last, pc, req, loc, cl, ev>>

Backends == {"sympy", "mpmath", "numpy"}
Modes == Backends \cup {"scipy"}
\* A list of sympy.Rational, or a numpy.ndarray of floats.
Kinds == {"Rational", "ndarray"}

NoCall ==
    [mode |-> "", decimal_places |-> 0, dps_in |-> 0]
        @@ Raise("none", "none", 0, FALSE)

Called == last.outcome # "none"

Threads == {1, 2}

NoReq == [alpha |-> Empty, beta |-> Empty, decimal_places |-> 0]
NoLoc == [prec |-> 0, d |-> Empty, b |-> Empty, dz |-> Empty,
          outcome |-> "none", x |-> Empty, w |-> Empty]
NoClenshaw == [a |-> Empty, alpha |-> Empty, beta |-> Empty, t |-> 0,
               state |-> "none", value |-> 0]
NoEval == [class |-> "", dim |-> 0, dtype |-> "", standardization |-> "",
           symbolic |-> "", state |-> "none"]

\* Nothing is running in the parts of the program a specification leaves out.
Idle ==
    /\ pc = [t \in Threads |-> "idle"]
    /\ req = [t \in Threads |-> NoReq]
    /\ loc = [t \in Threads |-> NoLoc]

Init ==
    /\ mpdps \in 1..MaxDps
    /\ coef \in {[alpha |-> p[1], beta |-> p[2], kind |-> k] :
                    p \in Inputs, k \in Kinds}
    /\ last = NoCall
    /\ Idle
    /\ cl = NoClenshaw
    /\ ev = NoEval

\* The caller obtains recurrence coefficients (recurrence_coefficients.*).
Provide ==
    /\ \E p \in Inputs, k \in Kinds :
          coef' = [alpha |-> p[1], beta |-> p[2], kind |-> k]
    /\ last' = NoCall
    /\ UNCHANGED <<mpdps, pc, req, loc, cl, ev>>

\* The call custom(..., mode, dp, ...) ended as r tells.
Ended(mode, dp, r) ==
    /\ last' = [mode |-> mode, decimal_places |-> dp, dps_in |-> mpdps] @@ r
    /\ mpdps' = r.dps
    /\ UNCHANGED <<coef, pc, req, loc, cl, ev>>

\* One call custom(alpha, beta, mode, decimal_places), start to end.
Custom ==
    \E mode \in Modes, dp \in 1..MaxDps :
      \E perm \in (IF mode = "sympy" THEN Perms(len(coef.alpha))
                   ELSE {Identity(len(coef.alpha))}) :
        Ended(mode, dp,
              custom(coef.alpha, coef.beta, coef.kind, mode, dp, mpdps, perm))

Next == Provide \/ Custom

Spec == Init /\ [][Next]_vars

---------------------------------------------------------------------------
(* Two threads inside _gauss_from_coefficients_mpmath, line by line *)

\* The coefficients the two threads pass.
ConcCoeffs ==
    {p \in Inputs : /\ p[1] \in {Array(<<0, 0>>), Array(<<0, 3>>)}
                    /\ p[2] \in {Array(<<4>>), Array(<<4, 4>>)}}

InitConc ==
    /\ mpdps \in 1..MaxDps
    /\ coef = [alpha |-> Empty, beta |-> Empty, kind |-> ""]
    /\ last = NoCall
    /\ Idle
    /\ cl = NoClenshaw
    /\ ev = NoEval

\* custom(alpha, beta, 'mpmath', decimal_places) is entered.
Enter(t) ==
    /\ pc[t] = "idle"
    /\ \E p \in ConcCoeffs, dp \in 1..MaxDps :
          req' = [req EXCEPT ![t] = [alpha |-> p[1], beta |-> p[2],
                                     decimal_places |-> dp]]
    /\ pc' = [pc EXCEPT ![t] = "l67"]
    /\ UNCHANGED <<mpdps, coef, last, loc, cl, ev>>

\* Line 67.
Assign(t) ==
    /\ pc[t] = "l67"
    /\ mpdps' = mp_dps_assign(mpdps, req[t].decimal_places)
    /\ pc' = [pc EXCEPT ![t] = "l70"]
    /\ UNCHANGED <<coef, last, req, loc, cl, ev>>

\* Lines 70-77.
Vectors(t) ==
    /\ pc[t] = "l70"
    /\ LET v == mpmath_vectors(req[t].alpha, req[t].beta)
       IN  IF v.ok
           THEN /\ loc' = [loc EXCEPT ![t].d = v.d, ![t].b = v.b]
                /\ pc' = [pc EXCEPT ![t] = "l78"]
           ELSE /\ loc' = [loc EXCEPT ![t].outcome = "IndexError"]
                /\ pc' = [pc EXCEPT ![t] = "done"]
    /\ UNCHANGED <<mpdps, coef, last, req, cl, ev>>

\* Line 78.
Eigen(t) ==
    /\ pc[t] = "l78"
    /\ loc' = [loc EXCEPT
                ![t].prec = ctx_prec(mpdps, req[t].decimal_places),
                ![t].dz = mpmath_eigen(loc[t].d, loc[t].b,
                              ctx_prec(mpdps, req[t].decimal_places))]
    /\ pc' = [pc EXCEPT ![t] = "l81"]
    /\ UNCHANGED <<mpdps, coef, last, req, cl, ev>>

\* Lines 81-83.
Convert(t) ==
    /\ pc[t] = "l81"
    /\ LET r == mpmath_convert(loc[t].dz, req[t].beta,
                               ctx_prec(mpdps, req[t].decimal_places))
       IN  loc' = [loc EXCEPT ![t].outcome = "returned",
                              ![t].x = r.x, ![t].w = r.w]
    /\ pc' = [pc EXCEPT ![t] = "done"]
    /\ UNCHANGED <<mpdps, coef, last, req, cl, ev>>

\* The caller takes the result (or the exception).
Leave(t) ==
    /\ pc[t] = "done"
    /\ pc' = [pc EXCEPT ![t] = "idle"]
    /\ req' = [req EXCEPT ![t] = NoReq]
    /\ loc' = [loc EXCEPT ![t] = NoLoc]
    /\ UNCHANGED <<mpdps, coef, last, cl, ev>>

NextConc ==
    \E t \in Threads :
        \/ Enter(t)
        \/ Assign(t)
        \/ Vectors(t)
        \/ Eigen(t)
        \/ Convert(t)
        \/ Leave(t)

SpecConc == InitConc /\ [][NextConc]_vars

\* C2: an eigen-computation runs at the precision mp.dps holds when it
\* starts, which two concurrent calls that ask for different decimal_places
\* both assign: the value found may be the other call's.
C2_EigenAtGlobalPrecision ==
    [][\A t \in Threads :
          (pc[t] = "l78" /\ pc'[t] = "l81") => loc'[t].prec = mpdps]_vars

\* A call has run its eigen-computation at the precision the other call,
\* still in progress, asked for.
C2_Witness ==
    \E t, u \in Threads :
        /\ t # u
        /\ pc[t] = "l81"
        /\ pc[u] \in {"l70", "l78", "l81", "done"}
        /\ req[t].decimal_places # req[u].decimal_places
        /\ loc[t].prec = req[u].decimal_places
        /\ loc[t].prec # req[t].decimal_places

---------------------------------------------------------------------------
(* Properties of custom() *)

n_last == len(coef.alpha)

Ascends(x) == \A i \in DOMAIN x : (i + 1) \in DOMAIN x => Leq(x[i], x[i+1])

\* C1: the nodes custom returns are in ascending order, in every backend and
\* whatever order the eigen-solver listed the eigenvalues in.
C1_NodesAscending ==
    last.outcome = "returned" => Ascends(last.x)

\* The exact backend returned a rule whose solver listed a larger eigenvalue
\* before a smaller one.
C1_Witness ==
    /\ last.outcome = "returned"
    /\ last.mode = "sympy"
    /\ ~Ascends(last.raw)
    /\ len(last.x) = len(last.raw)
    /\ Ascends(last.x)

\* C3: a mode other than 'sympy', 'mpmath', 'numpy' fails: no backend runs,
\* no rule is returned and mp.dps keeps the value it had at entry.
C3_UnsupportedFails ==
    (Called /\ last.mode \notin Backends) =>
        /\ last.outcome = "AssertionError"
        /\ last.backend = "none"
        /\ ~last.solved
        /\ last.x = Empty /\ last.w = Empty
        /\ ~last.touched
        /\ mpdps = last.dps_in

C3_Witness ==
    /\ last.mode = "scipy"
    /\ last.outcome = "AssertionError"
    /\ coef.kind = "ndarray"
    /\ last.decimal_places # last.dps_in

\* C4: the exact backend fails, returning no rule, when the decomposition
\* reports an eigenvalue of multiplicity other than 1, and returns a rule only
\* when every reported eigenvalue is simple.
C4_DegenerateRejected ==
    (last.backend = "sympy" /\ last.solved) =>
        LET items == Spectrum[last.A]
            degenerate == \E k \in 1..Len(items) : items[k].mult # 1
        IN  /\ degenerate =>
                /\ last.outcome = "AssertionError"
                /\ last.x = Empty /\ last.w = Empty
            /\ last.outcome = "returned" => ~degenerate

C4_Witness ==
    /\ last.backend = "sympy"
    /\ last.solved
    /\ last.outcome = "AssertionError"
    /\ len(last.raw) < n_last

\* C5: len(alpha) # len(beta) makes custom fail in every backend, before any
\* eigen-solver runs and before mp.dps is assigned.
C5_MismatchEager ==
    (Called /\ last.mode \in Backends /\ len(coef.alpha) # len(coef.beta)) =>
        /\ last.outcome # "returned"
        /\ ~last.solved
        /\ ~last.touched
        /\ mpdps = last.dps_in

\* C6: the outcome and the rule of a call depend on its arguments alone: the
\* same call made with any other value left in mp.dps, and any other order
\* of the solver's list, ends the same way with the same (nodes, weights).
C6_ArgsDetermineResult ==
    Called =>
        \A d \in 1..MaxDps :
          \A perm \in (IF last.mode = "sympy" THEN Perms(n_last)
                       ELSE {Identity(n_last)}) :
            LET r == custom(coef.alpha, coef.beta, coef.kind, last.mode,
                            last.decimal_places, d, perm)
            IN  /\ r.outcome = last.outcome
                /\ r.x = last.x
                /\ r.w = last.w

\* An arbitrary-precision call that found another precision in mp.dps and
\* returned weights that do not fit its own.
C6_Witness ==
    /\ last.outcome = "returned"
    /\ last.mode = "mpmath"
    /\ last.dps_in # last.decimal_places
    /\ \E i \in DOMAIN last.w :
          last.w[i] # <<10 * (last.w[i][1] \div 10), last.w[i][2]>>

\* diag alpha[k], off-diagonals sqrt(beta[k]) for k >= 1, 0 elsewhere.
Jacobi(alpha, beta) ==
    [i \in DOMAIN alpha |-> [j \in DOMAIN alpha |->
        IF i = j THEN alpha[i]
        ELSE IF j - i = 1 THEN sqrt(beta[j])
        ELSE IF i - j = 1 THEN sqrt(beta[i])
        ELSE 0]]

\* C7: for alpha and beta of one length n every backend hands its solver the
\* Jacobi matrix: alpha on the diagonal, sqrt(beta[k]), k = 1..n-1, beside
\* it, 0 elsewhere, beta[0] nowhere.
C7_SameJacobi ==
    (last.solved /\ len(coef.alpha) = len(coef.beta)) =>
        /\ last.A = Jacobi(coef.alpha, coef.beta)
        /\ \A b0 \in BetaVals :
              last.A = Jacobi(coef.alpha, [coef.beta EXCEPT ![0] = b0])

C7_Witness ==
    /\ last.solved
    /\ last.mode = "numpy"
    /\ len(coef.alpha) = len(coef.beta)
    /\ n_last >= 2
    /\ coef.beta[1] # 0
    /\ coef.beta[0] # coef.beta[1]

\* beta0 times the squared first component of v normalized, as the backend
\* holds it: exactly, or at p decimal digits.
WeightOf(v, beta0, backend, p) ==
    IF backend = "sympy" THEN Rat(beta0 * v[0] * v[0], Dot(v, v))
    ELSE <<beta0 * RoundTo(v[0] * v[0], Dot(v, v), p)[1], Pow10(p)>>

\* C8: in a returned rule w[i] is beta[0] times the squared first component
\* of a normalized eigenvector for the eigenvalue x[i].
C8_WeightsAligned ==
    last.outcome = "returned" =>
        LET p == IF last.backend = "mpmath" THEN last.decimal_places
                 ELSE DoubleDigits
        IN  \A i \in DOMAIN last.x :
              /\ last.x[i][1] % last.x[i][2] = 0
              /\ \E v \in NullVecs(last.A, last.x[i][1] \div last.x[i][2]) :
                    last.w[i] = WeightOf(v, coef.beta[0], last.backend, p)

\* The exact backend reordered a rule whose weights differ.
C8_Witness ==
    /\ last.outcome = "returned"
    /\ last.mode = "sympy"
    /\ ~Ascends(last.raw)
    /\ \E i, j \in DOMAIN last.w : last.w[i] # last.w[j]

---------------------------------------------------------------------------
(* The Clenshaw reducer, as test_clenshaw calls it *)

\* Values the coefficients a, the recurrence coefficients and the point t
\* are drawn from.
AVals == {-1, 0, 1}
ClAlphaVals == {0, 1}
ClBetaVals == {1, 2}
TVals == {-1, 0, 2}

RECURSIVE clenshaw_b(_, _, _, _, _)
\* b_k of the backward recurrence over a[0..n], n = len(alpha):
\* b_k = a_k + (t - alpha_k) b_{k+1} - beta_{k+1} b_{k+2}, b_{n+1} = b_{n+2} = 0.
clenshaw_b(a, alpha, beta, t, k) ==
    LET n == len(alpha)
    IN  IF k > n THEN 0
        ELSE a[k]
             + (IF k + 1 > n THEN 0
                ELSE (t - alpha[k]) * clenshaw_b(a, alpha, beta, t, k + 1))
             - (IF k + 2 > n THEN 0
                ELSE beta[k+1] * clenshaw_b(a, alpha, beta, t, k + 2))

\* Variant: the recurrence without its beta term.
clenshaw_two_term(a, alpha, beta, t) ==
    clenshaw_b(a, alpha, [k \in DOMAIN beta |-> 0], t, 0)

\* clenshaw(a, alpha, beta, t) for monic coefficients: b_0 (p_0 = 1).
clenshaw(a, alpha, beta, t) == clenshaw_b(a, alpha, beta, t, 0)

RECURSIVE monic(_, _, _, _)
\* p_k(t): p_{-1} = 0, p_0 = 1, p_{k+1} = (t - alpha_k) p_k - beta_k p_{k-1}.
monic(alpha, beta, t, k) ==
    IF k < 0 THEN 0
    ELSE IF k = 0 THEN 1
    ELSE (t - alpha[k-1]) * monic(alpha, beta, t, k - 1)
         - beta[k-1] * monic(alpha, beta, t, k - 2)

\* ref = fsum(a[i] * p_i(t) for i in range(n + 1))
direct_sum(a, alpha, beta, t) ==
    SumTo([k \in DOMAIN a |-> a[k] * monic(alpha, beta, t, k)], len(a) - 1)

\* test_clenshaw's arguments: n coefficient pairs, n + 1 coefficients, a point.
InitClenshaw ==
    /\ mpdps \in {1}
    /\ coef = [alpha |-> Empty, beta |-> Empty, kind |-> ""]
    /\ last = NoCall
    /\ Idle
    /\ ev = NoEval
    /\ \E n \in 1..MaxDeg :
         cl \in [a : [0..n -> AVals], alpha : [0..(n-1) -> ClAlphaVals],
                 beta : [0..(n-1) -> ClBetaVals], t : TVals,
                 state : {"args"}, value : {0}]

\* value = orthopy.c1.clenshaw(a, alpha, beta, t)
Clenshaw ==
    /\ cl.state = "args"
    /\ cl' = [cl EXCEPT !.state = "value",
                        !.value = clenshaw(cl.a, cl.alpha, cl.beta, cl.t)]
    /\ UNCHANGED <<mpdps, coef, last, pc, req, loc, ev>>

NextClenshaw == Clenshaw

SpecClenshaw == InitClenshaw /\ [][NextClenshaw]_vars

\* C9: for monic coefficients clenshaw(c, alpha, beta, t) is the direct sum
\* of c[k] p_k(t), k = 0..n, p_k from the forward three-term recurrence, with
\* n coefficient pairs for n + 1 coefficients.
C9_ClenshawIsDirectSum ==
    cl.state = "value" =>
        cl.value = direct_sum(cl.a, cl.alpha, cl.beta, cl.t)

\* An expansion whose terms all count, the beta term included.
C9_Witness ==
    /\ cl.state = "value"
    /\ len(cl.alpha) >= 2
    /\ \A k \in DOMAIN cl.a : cl.a[k] # 0
    /\ cl.value # clenshaw_two_term(cl.a, cl.alpha, cl.beta, cl.t)
    /\ cl.value # 0

---------------------------------------------------------------------------
(* enr2/main.py: Eval.__init__ and EvalWithDegrees.__init__ *)

Classes == {"Eval", "EvalWithDegrees"}
Tags == {"probabilists", "physicists", "monic", "classical", "normal"}
\* The dtype of numpy.asarray(X): object for sympy expressions.
Dtypes == {"float64", "object"}
Symbolics == {"auto", "True", "False"}

\* if symbolic == "auto": symbolic = numpy.asarray(X).dtype == sympy.Basic
resolve_symbolic(symbolic, dtype) ==
    IF symbolic = "auto" THEN (IF dtype = "object" THEN "True" ELSE "False")
    ELSE symbolic

\* Variant: an unknown tag falls back on the probabilists' coefficients.
rc_class_default(standardization) ==
    IF standardization = "physicists" THEN "RCPhysicistNormal"
    ELSE "RCProbabilistNormal"

\* {"probabilists": RCProbabilistNormal, "physicists": RCPhysicistNormal}[
\*     standardization]
rc_class(standardization) ==
    IF standardization = "probabilists" THEN "RCProbabilistNormal"
    ELSE IF standardization = "physicists" THEN "RCPhysicistNormal"
    ELSE "KeyError"

\* The base class of each evaluator.
base_class(class) ==
    IF class = "Eval" THEN "ProductEval" ELSE "ProductEvalWithDegrees"

\* __init__(X, standardization, symbolic): how it ends, the provider rc
\* created, int_1, and the arguments the base's __init__ was given.
init_enr2(class, dim, dtype, standardization, symbolic) ==
    LET sym == resolve_symbolic(symbolic, dtype)
        rc == rc_class(standardization)
    IN  IF rc = "KeyError"
        THEN [outcome |-> "KeyError", rc |-> "none", rc_symbolic |-> "",
              int_1 |-> "none", base |-> "none", base_dim |-> 0,
              base_symbolic |-> ""]
        ELSE [outcome |-> "constructed", rc |-> rc, rc_symbolic |-> sym,
              int_1 |-> IF sym = "True" THEN "sympy.sqrt(sympy.pi)"
                        ELSE "numpy.sqrt(numpy.pi)",
              base |-> base_class(class), base_dim |-> dim,
              base_symbolic |-> sym]

InitEnr2 ==
    /\ mpdps \in {1}
    /\ coef = [alpha |-> Empty, beta |-> Empty, kind |-> ""]
    /\ last = NoCall
    /\ Idle
    /\ cl = NoClenshaw
    /\ ev \in [class : Classes, dim : 1..MaxDim, dtype : Dtypes,
               standardization : Tags, symbolic : Symbolics,
               state : {"args"}]

\* Eval(X, standardization, symbolic) or EvalWithDegrees(...).
Construct ==
    /\ ev.state = "args"
    /\ ev' = [ev EXCEPT !.state = "done"]
               @@ init_enr2(ev.class, ev.dim, ev.dtype, ev.standardization,
                            ev.symbolic)
    /\ UNCHANGED <<mpdps, coef, last, pc, req, loc, cl>>

NextEnr2 == Construct

SpecEnr2 == InitEnr2 /\ [][NextEnr2]_vars

\* C10: a standardization tag other than 'probabilists' and 'physicists'
\* makes either constructor fail before a coefficient provider is created
\* and before the product base is initialised, whatever symbolic is.
C10_UnknownTagFails ==
    (ev.state = "done"
        /\ ev.standardization \notin {"probabilists", "physicists"}) =>
            /\ ev.outcome # "constructed"
            /\ ev.rc = "none"
            /\ ev.base = "none"

C10_Witness ==
    /\ ev.state = "done"
    /\ ev.standardization = "monic"
    /\ ev.class = "EvalWithDegrees"
    /\ ev.symbolic = "auto"
    /\ ev.outcome = "KeyError"

===========================================================================
